---- MODULE Spec2Model ----
(***************************************************************************)
(* Model of package fileitem (src/fileitem.go): a set of case-insensitive  *)
(* string entries kept in memory (fi.items) and mirrored in a text file    *)
(* (fi.path), guarded by one mutex (fi.itemsMu).                            *)
(*                                                                         *)
(* Strings are sequences of one-character strings.  The file is a record   *)
(* [exists, data].  Every file-system call may fail.                       *)
(***************************************************************************)
EXTENDS Integers, Sequences, FiniteSets, TLC

\* ------------------------------------------------------------------ bounds
\* Number of goroutines calling into the store.
NumThreads == 2
\* Number of public operations (Add, Remove, Contains, Items) started in a run.
MaxOps == 2
\* Number of file-system calls that fail in a run.
MaxFailures == 1

Threads == 1..NumThreads

\* ------------------------------------------------------- package strings
LF == "\n"
CR == "\r"

\* unicode.IsSpace, restricted to the characters of the model's alphabet.
IsSpace(c) == c \in {" ", "\t", LF, CR}

\* unicode.ToLower on one character.
ToLowerChar(c) ==
    CASE c = "A" -> "a"
      [] c = "B" -> "b"
      [] c = "C" -> "c"
      [] OTHER -> c

\* strings.ToLower
ToLower(s) == [i \in 1..Len(s) |-> ToLowerChar(s[i])]

RECURSIVE TrimLeft(_)
TrimLeft(s) ==
    IF s # << >> /\ IsSpace(Head(s)) THEN TrimLeft(Tail(s)) ELSE s

\* Mutant: whitespace at the end is kept.
TrimRightKeeps(s) == s

RECURSIVE TrimRight(_)
TrimRight(s) ==
    IF s # << >> /\ IsSpace(s[Len(s)])
    THEN TrimRight(SubSeq(s, 1, Len(s) - 1))
    ELSE s

\* Mutant: the argument is not trimmed.
TrimSpaceNone(s) == s

\* strings.TrimSpace
TrimSpace(s) == TrimRight(TrimLeft(s))

\* strings.ReplaceAll(s, "\r\n", "\n")
RECURSIVE ReplaceCRLF(_)
ReplaceCRLF(s) ==
    IF s = << >> THEN << >>
    ELSE IF Len(s) >= 2 /\ s[1] = CR /\ s[2] = LF
         THEN <<LF>> \o ReplaceCRLF(SubSeq(s, 3, Len(s)))
         ELSE <<Head(s)>> \o ReplaceCRLF(Tail(s))

\* strings.Split(s, "\n"): always at least one element.
RECURSIVE Split(_)
Split(s) ==
    IF \E i \in 1..Len(s) : s[i] = LF
    THEN LET i == CHOOSE k \in 1..Len(s) :
                      s[k] = LF /\ \A j \in 1..(k - 1) : s[j] # LF
         IN  <<SubSeq(s, 1, i - 1)>> \o Split(SubSeq(s, i + 1, Len(s)))
    ELSE <<s>>

\* strings.Join(lines, "\n")
RECURSIVE Join(_)
Join(lines) ==
    IF lines = << >> THEN << >>
    ELSE IF Len(lines) = 1 THEN lines[1]
    ELSE lines[1] \o <<LF>> \o Join(Tail(lines))

\* Mutant: load() inserts the trimmed lines without lowercasing them.
LoadEntriesNoFold(data) ==
    LET lines == Split(ReplaceCRLF(data))
    IN  { TrimSpace(lines[i]) :
            i \in { k \in 1..Len(lines) : TrimSpace(lines[k]) # << >> } }

\* The entries load() inserts for file content data (fileitem.go:115-123).
LoadEntries(data) ==
    LET lines == Split(ReplaceCRLF(data))
    IN  { ToLower(TrimSpace(lines[i])) :
            i \in { k \in 1..Len(lines) : TrimSpace(lines[k]) # << >> } }

\* Mutant: membership is tested without lowercasing.
containsExact(set, item) ==
    LET trimmed == TrimSpace(item)
    IN  IF trimmed = << >> THEN FALSE ELSE trimmed \in set

\* fi.contains (fileitem.go:88-94).
contains(set, item) ==
    LET trimmed == TrimSpace(item)
    IN  IF trimmed = << >> THEN FALSE ELSE ToLower(trimmed) \in set

\* All orders in which ranging over the map can yield the elements of set.
RECURSIVE Orders(_)
Orders(set) ==
    IF set = {} THEN { << >> }
    ELSE UNION { { <<x>> \o rest : rest \in Orders(set \ {x}) } : x \in set }

Prefixes(s) == { SubSeq(s, 1, n) : n \in 0..Len(s) }
ProperPrefixes(s) == { SubSeq(s, 1, n) : n \in 0..(Len(s) - 1) }

\* ------------------------------------------------------------------ inputs
\* Arguments passed to Add, Remove and Contains: empty, blank, the same entry
\* in both letter cases, an entry with surrounding whitespace, and an entry
\* with a newline inside it.
Inputs ==
    { << >>, <<" ">>, <<"a">>, <<" ", "A", LF>>, <<"b">>, <<"a", LF, "b">> }

\* Contents of the backing file before New is called: three entries, with a
\* CRLF line end, a blank line, surrounding whitespace, mixed case and a
\* repeated entry.
InitialData ==
    { <<"A", CR, LF, LF, " ", "b", LF, "c", LF, "B">> }

NoFile == [exists |-> FALSE, data |-> << >>]
InitialFiles == { NoFile } \cup { [exists |-> TRUE, data |-> d] : d \in InitialData }

NoPre == [items |-> {}, file |-> NoFile]
NoCall == [op |-> "none", arg |-> << >>, callItems |-> {}, seenAdds |-> {},
           overlapped |-> FALSE]
NoRet == [res |-> "none", failedCall |-> "none"]
NoSeq == [must |-> {}, may |-> {}]

\* ------------------------------------------------------------------- state
VARIABLES
    file,      \* the file at fi.path: [exists, data]
    store,     \* "new" before New(path), then "open" or "failed"
    items,     \* fi.items
    mu,        \* fi.itemsMu: 0 when free, else the thread holding it
    pc,        \* each thread's position in the code
    cur,       \* each thread's call in progress: [op, arg], and callItems (the
               \* set when it called), seenAdds (the entries other threads
               \* called Add with since), overlapped (another call was in
               \* flight with it)
    item,      \* each thread's local variable item (after strings.TrimSpace)
    ret,       \* each thread's pending return value
    handle,    \* each thread's open *os.File f in appendToFile
    seq,       \* each thread's iteration over the iter.Seq of Items: must, the
               \* elements still to be produced (in the map since the
               \* iteration began), and may, the elements inserted since,
               \* which the iteration produces or skips
    crashed,   \* the runtime aborted the process (concurrent map iteration and write)
    nfail,     \* number of file-system calls that have returned an error
    nops,      \* number of operations started
    pre,       \* items and file when the operation in progress started: at
               \* the call of New, at the last acquisition of the lock
    acked,     \* entries whose Add has returned nil, until a Remove of them is called
    failedAdds \* entries whose Add has returned the error of its append, until a
               \* Remove deletes them or a Remove rewrites the file

vars == <<file, store, items, mu, pc, cur, item, ret, handle, seq, crashed,
          nfail, nops, pre, acked, failedAdds>>

Init ==
    /\ file \in InitialFiles
    /\ store = "new"
    /\ items = {}
    /\ mu = 0
    /\ pc = [t \in Threads |-> "idle"]
    /\ cur = [t \in Threads |-> NoCall]
    /\ item = [t \in Threads |-> << >>]
    /\ ret = [t \in Threads |-> NoRet]
    /\ handle = [t \in Threads |-> FALSE]
    /\ seq = [t \in Threads |-> NoSeq]
    /\ crashed = FALSE
    /\ nfail = 0
    /\ nops = 0
    /\ pre = NoPre
    /\ acked = {}
    /\ failedAdds = {}

\* Some file-system call has returned an error.
IoFailed == nfail > 0

\* A file-system call returns an error.
FsError == nfail < MaxFailures /\ nfail' = nfail + 1

\* ---------------------------------------------------------------- New, load
\* Mutant: load() returns nil for a missing file without creating it.
CreatedFileMissing == NoFile

\* The file os.WriteFile(fi.path, []byte{}, 0644) leaves (fileitem.go:109).
CreatedFile == [exists |-> TRUE, data |-> << >>]

\* New(path): load() reads the file; a missing file is created empty; any
\* other read error fails the construction.  pre keeps the file as New found
\* it.
New ==
    /\ store = "new"
    /\ pre' = [items |-> items, file |-> file]
    /\ UNCHANGED <<mu, pc, cur, item, ret, handle, seq, crashed, nops,
                   acked, failedAdds>>
    /\ \/ /\ file.exists                              \* os.ReadFile succeeds
          /\ store' = "open"
          /\ items' = LoadEntries(file.data)
          /\ UNCHANGED <<file, nfail>>
       \/ /\ ~file.exists                             \* os.IsNotExist(err)
          /\ \/ /\ store' = "open"                    \* os.WriteFile creates it
                /\ file' = CreatedFile
                /\ UNCHANGED <<items, nfail>>
             \/ /\ store' = "failed"                  \* os.WriteFile fails:
                /\ FsError                            \* at its open, or at its
                /\ \/ UNCHANGED file                  \* close after creating
                   \/ file' = CreatedFile             \* the file
                /\ UNCHANGED items
       \/ /\ store' = "failed"                        \* unexpected read error
          /\ FsError
          /\ UNCHANGED <<file, items>>

\* ------------------------------------------------------- calls and the lock
Running == store = "open" /\ ~crashed

\* The normalized form of an argument: trimmed and lowercased.
Normalized(s) == ToLower(TrimSpace(s))

\* A thread is inside a public operation (called, not yet returned).
InFlight(u) == pc[u] \notin {"idle", "range", "ranging"}

\* A goroutine calls a public operation and reaches fi.itemsMu.Lock().  The
\* operation's argument is not looked at before the mutex is acquired, so it
\* is drawn when the body starts (Lock).  Idle threads are interchangeable:
\* the call is made by the first of them.
Call(t) ==
    /\ Running
    /\ pc[t] = "idle"
    /\ \A u \in Threads : u < t => pc[u] # "idle"
    /\ nops < MaxOps
    /\ nops' = nops + 1
    /\ cur' = [u \in Threads |->
                 IF u = t
                 THEN [NoCall EXCEPT
                         !.callItems = items,
                         !.seenAdds = { Normalized(cur[v].arg) :
                                          v \in { w \in Threads \ {t} :
                                                    cur[w].op = "Add" } },
                         !.overlapped = \E v \in Threads \ {t} : InFlight(v)]
                 ELSE IF InFlight(u)
                 THEN [cur[u] EXCEPT !.overlapped = TRUE]
                 ELSE cur[u]]
    /\ pc' = [pc EXCEPT ![t] = "lock"]
    /\ UNCHANGED <<file, store, items, mu, item, ret, handle, seq, crashed,
                   nfail, pre, acked, failedAdds>>

FirstStep(op) ==
    CASE op = "Add" -> "AddCheck"
      [] op = "Remove" -> "RemoveCheck"
      [] op = "Contains" -> "ContainsBody"
      [] op = "Items" -> "ItemsBody"

\* Mutant: Lock never waits.
LockFreeAlways == TRUE

\* sync.Mutex: Lock proceeds only when no thread holds the mutex.
LockFree == mu = 0

\* fi.itemsMu.Lock() returns in thread t, which called op(s).
Lock(t, op, s) ==
    /\ Running
    /\ pc[t] = "lock"
    /\ LockFree
    /\ mu' = t
    /\ pc' = [pc EXCEPT ![t] = FirstStep(op)]
    /\ cur' = [u \in Threads |->
                 IF u = t
                 THEN [cur[t] EXCEPT !.op = op, !.arg = s]
                 ELSE IF InFlight(u) /\ op = "Add"
                 THEN [cur[u] EXCEPT !.seenAdds = @ \cup {Normalized(s)}]
                 ELSE cur[u]]
    /\ pre' = [items |-> items, file |-> file]
    /\ UNCHANGED <<file, store, items, item, ret, handle, seq, crashed,
                   nfail, nops, acked, failedAdds>>

\* The position after a return: Items hands back a sequence that the caller
\* ranges over without the lock; the other operations leave the caller idle.
AfterReturn(op) == IF op = "Items" THEN "range" ELSE "idle"

\* defer fi.itemsMu.Unlock(), and the return to the caller.
Unlock(t) ==
    /\ Running
    /\ pc[t] = "unlock"
    /\ mu' = 0
    /\ pc' = [pc EXCEPT ![t] = AfterReturn(cur[t].op)]
    /\ acked' = IF cur[t].op = "Add" /\ ret[t].res = "ok"
                THEN acked \cup {Normalized(cur[t].arg)}
                ELSE acked
    /\ failedAdds' = IF cur[t].op = "Add" /\ ret[t].res = "IOFailure"
                     THEN failedAdds \cup {Normalized(cur[t].arg)}
                     ELSE failedAdds
    /\ cur' = [cur EXCEPT ![t] = NoCall]
    /\ ret' = [ret EXCEPT ![t] = NoRet]
    /\ item' = [item EXCEPT ![t] = << >>]
    /\ pre' = NoPre
    /\ UNCHANGED <<file, store, items, handle, seq, crashed, nfail, nops>>

\* ---------------------------------------------------------------------- Add
\* Mutant: Add inserts the trimmed entry without lowercasing it.
AddKeyNoFold(trimmed) == trimmed

\* The element Add inserts into fi.items (fileitem.go:49).
AddKey(trimmed) == ToLower(trimmed)

\* Mutant: Add does not test whether the entry is already present.
AddCheckNoDuplicateTest(t) ==
    /\ Running
    /\ pc[t] = "AddCheck"
    /\ LET trimmed == TrimSpace(cur[t].arg)
       IN  /\ item' = [item EXCEPT ![t] = trimmed]
           /\ IF trimmed = << >>
              THEN /\ ret' = [ret EXCEPT ![t].res = "EmptyEntry"]
                   /\ pc' = [pc EXCEPT ![t] = "unlock"]
              ELSE /\ pc' = [pc EXCEPT ![t] = "AddInsert"]
                   /\ UNCHANGED ret
    /\ UNCHANGED <<file, store, items, mu, cur, handle, seq, crashed,
                   nfail, nops, pre, acked, failedAdds>>

\* Mutant: Add holds the lock for the membership test only.
AddCheckThenUnlock(t) ==
    /\ Running
    /\ pc[t] = "AddCheck"
    /\ LET trimmed == TrimSpace(cur[t].arg)
       IN  /\ item' = [item EXCEPT ![t] = trimmed]
           /\ IF trimmed = << >>
              THEN /\ ret' = [ret EXCEPT ![t].res = "EmptyEntry"]
                   /\ pc' = [pc EXCEPT ![t] = "unlock"]
                   /\ UNCHANGED mu
              ELSE IF contains(items, trimmed)
              THEN /\ ret' = [ret EXCEPT ![t].res = "AlreadyExists"]
                   /\ pc' = [pc EXCEPT ![t] = "unlock"]
                   /\ UNCHANGED mu
              ELSE /\ pc' = [pc EXCEPT ![t] = "AddInsert"]
                   /\ mu' = 0
                   /\ UNCHANGED ret
    /\ UNCHANGED <<file, store, items, cur, handle, seq, crashed,
                   nfail, nops, pre, acked, failedAdds>>

\* Add, lines 38-46: trim, reject the empty entry and the entry already present.
AddCheck(t) ==
    /\ Running
    /\ pc[t] = "AddCheck"
    /\ LET trimmed == TrimSpace(cur[t].arg)
       IN  /\ item' = [item EXCEPT ![t] = trimmed]
           /\ IF trimmed = << >>
              THEN /\ ret' = [ret EXCEPT ![t].res = "EmptyEntry"]
                   /\ pc' = [pc EXCEPT ![t] = "unlock"]
              ELSE IF contains(items, trimmed)
              THEN /\ ret' = [ret EXCEPT ![t].res = "AlreadyExists"]
                   /\ pc' = [pc EXCEPT ![t] = "unlock"]
              ELSE /\ pc' = [pc EXCEPT ![t] = "AddInsert"]
                   /\ UNCHANGED ret
    /\ UNCHANGED <<file, store, items, mu, cur, handle, seq, crashed,
                   nfail, nops, pre, acked, failedAdds>>

\* Add, line 49: fi.items.Add(strings.ToLower(item)).  An iteration in
\* progress over the map may produce the new element or skip it.
AddInsert(t) ==
    /\ Running
    /\ pc[t] = "AddInsert"
    /\ items' = items \cup {AddKey(item[t])}
    /\ seq' = [u \in Threads |->
                 IF pc[u] = "ranging" /\ AddKey(item[t]) \notin items
                 THEN [seq[u] EXCEPT !.may = @ \cup {AddKey(item[t])}]
                 ELSE seq[u]]
    /\ pc' = [pc EXCEPT ![t] = "AppendOpen"]
    /\ UNCHANGED <<file, store, mu, cur, item, ret, handle, crashed,
                   nfail, nops, pre, acked, failedAdds>>

\* Mutant: a failed os.OpenFile takes the entry out of fi.items again.
AppendOpenRollback(t) ==
    /\ Running
    /\ pc[t] = "AppendOpen"
    /\ \/ /\ file' = [file EXCEPT !.exists = TRUE]
          /\ handle' = [handle EXCEPT ![t] = TRUE]
          /\ pc' = [pc EXCEPT ![t] = "AppendStat"]
          /\ UNCHANGED <<ret, nfail, items>>
       \/ /\ ret' = [ret EXCEPT ![t] = [res |-> "IOFailure", failedCall |-> "OpenFile"]]
          /\ pc' = [pc EXCEPT ![t] = "unlock"]
          /\ items' = items \ {ToLower(item[t])}
          /\ FsError
          /\ UNCHANGED <<file, handle>>
    /\ UNCHANGED <<store, mu, cur, item, seq, crashed, nops, pre, acked, failedAdds>>

\* appendToFile, lines 130-133: os.OpenFile with O_APPEND|O_CREATE|O_WRONLY.
AppendOpen(t) ==
    /\ Running
    /\ pc[t] = "AppendOpen"
    /\ \/ /\ file' = [file EXCEPT !.exists = TRUE]
          /\ handle' = [handle EXCEPT ![t] = TRUE]
          /\ pc' = [pc EXCEPT ![t] = "AppendStat"]
          /\ UNCHANGED <<ret, nfail>>
       \/ /\ ret' = [ret EXCEPT ![t] = [res |-> "IOFailure", failedCall |-> "OpenFile"]]
          /\ pc' = [pc EXCEPT ![t] = "unlock"]
          /\ FsError
          /\ UNCHANGED <<file, handle>>
    /\ UNCHANGED <<store, items, mu, cur, item, seq, crashed, nops, pre,
                   acked, failedAdds>>

\* appendToFile, line 139: stat.Size() > 0.
NeedsSeparator(size) == size > 0

\* appendToFile, line 139: a separator is due when Stat succeeds and reports a
\* size above zero; the error of Stat is discarded.
AppendStat(t) ==
    /\ Running
    /\ pc[t] = "AppendStat"
    /\ \/ /\ pc' = [pc EXCEPT ![t] =
                      IF NeedsSeparator(Len(file.data))
                      THEN "AppendSep" ELSE "AppendItem"]
          /\ UNCHANGED <<ret, nfail>>
       \/ /\ pc' = [pc EXCEPT ![t] = "AppendItem"]     \* stat == nil
          /\ ret' = [ret EXCEPT ![t].failedCall = "Stat"]
          /\ FsError
    /\ UNCHANGED <<file, store, items, mu, cur, item, handle, seq, crashed,
                   nops, pre, acked, failedAdds>>

\* Mutant: a failed write of the separator returns without closing the file.
AppendSepLeak(t) ==
    /\ Running
    /\ pc[t] = "AppendSep"
    /\ \/ /\ file' = [file EXCEPT !.data = @ \o <<LF>>]
          /\ pc' = [pc EXCEPT ![t] = "AppendItem"]
          /\ UNCHANGED <<ret, nfail>>
       \/ /\ ret' = [ret EXCEPT ![t] = [res |-> "IOFailure", failedCall |-> "WriteSep"]]
          /\ pc' = [pc EXCEPT ![t] = "unlock"]
          /\ FsError
          /\ UNCHANGED file
    /\ UNCHANGED <<store, items, mu, cur, item, handle, seq, crashed, nops,
                   pre, acked, failedAdds>>

\* appendToFile, lines 141-143: f.WriteString("\n").
AppendSep(t) ==
    /\ Running
    /\ pc[t] = "AppendSep"
    /\ \/ /\ file' = [file EXCEPT !.data = @ \o <<LF>>]
          /\ pc' = [pc EXCEPT ![t] = "AppendItem"]
          /\ UNCHANGED <<ret, nfail>>
       \/ /\ ret' = [ret EXCEPT ![t] = [res |-> "IOFailure", failedCall |-> "WriteSep"]]
          /\ pc' = [pc EXCEPT ![t] = "AppendClose"]
          /\ FsError
          /\ UNCHANGED file
    /\ UNCHANGED <<store, items, mu, cur, item, handle, seq, crashed, nops,
                   pre, acked, failedAdds>>

\* The text appendToFile writes for the entry (fileitem.go:147).
AppendText(trimmed) == trimmed

\* Mutant: a failed write of the entry takes it out of fi.items again.
AppendItemRollback(t) ==
    /\ Running
    /\ pc[t] = "AppendItem"
    /\ \/ /\ file' = [file EXCEPT !.data = @ \o AppendText(item[t])]
          /\ ret' = [ret EXCEPT ![t].res = "ok"]
          /\ UNCHANGED <<nfail, items>>
       \/ \E part \in ProperPrefixes(AppendText(item[t])) :
             /\ file' = [file EXCEPT !.data = @ \o part]
             /\ ret' = [ret EXCEPT ![t] = [res |-> "IOFailure", failedCall |-> "WriteItem"]]
             /\ items' = items \ {ToLower(item[t])}
             /\ FsError
    /\ pc' = [pc EXCEPT ![t] = "AppendClose"]
    /\ UNCHANGED <<store, mu, cur, item, handle, seq, crashed, nops,
                   pre, acked, failedAdds>>

\* appendToFile, lines 147-148: f.WriteString(item); a failed write may leave a
\* part of the text in the file.
AppendItem(t) ==
    /\ Running
    /\ pc[t] = "AppendItem"
    /\ \/ /\ file' = [file EXCEPT !.data = @ \o AppendText(item[t])]
          /\ ret' = [ret EXCEPT ![t].res = "ok"]
          /\ UNCHANGED nfail
       \/ \E part \in ProperPrefixes(AppendText(item[t])) :
             /\ file' = [file EXCEPT !.data = @ \o part]
             /\ ret' = [ret EXCEPT ![t] = [res |-> "IOFailure", failedCall |-> "WriteItem"]]
             /\ FsError
    /\ pc' = [pc EXCEPT ![t] = "AppendClose"]
    /\ UNCHANGED <<store, items, mu, cur, item, handle, seq, crashed, nops,
                   pre, acked, failedAdds>>

\* appendToFile, lines 134-137: the deferred f.Close().
AppendClose(t) ==
    /\ Running
    /\ pc[t] = "AppendClose"
    /\ handle' = [handle EXCEPT ![t] = FALSE]
    /\ pc' = [pc EXCEPT ![t] = "unlock"]
    /\ UNCHANGED <<file, store, items, mu, cur, item, ret, seq, crashed,
                   nfail, nops, pre, acked, failedAdds>>

\* ------------------------------------------------------------------- Remove
\* Mutant: Remove deletes the trimmed entry without lowercasing it.
RemoveKeyNoFold(trimmed) == trimmed

\* The element Remove deletes from fi.items (fileitem.go:71).
RemoveKey(trimmed) == ToLower(trimmed)

\* Mutant: Remove does not test whether the entry is present.
RemoveCheckNoPresenceTest(t) ==
    /\ Running
    /\ pc[t] = "RemoveCheck"
    /\ LET trimmed == TrimSpace(cur[t].arg)
       IN  /\ item' = [item EXCEPT ![t] = trimmed]
           /\ IF trimmed = << >>
              THEN /\ ret' = [ret EXCEPT ![t].res = "EmptyEntry"]
                   /\ pc' = [pc EXCEPT ![t] = "unlock"]
              ELSE /\ pc' = [pc EXCEPT ![t] = "RemoveDelete"]
                   /\ UNCHANGED ret
    /\ UNCHANGED <<file, store, items, mu, cur, handle, seq, crashed,
                   nfail, nops, pre, acked, failedAdds>>

\* Remove, lines 64-77: trim, reject the empty entry and the unknown entry.
RemoveCheck(t) ==
    /\ Running
    /\ pc[t] = "RemoveCheck"
    /\ LET trimmed == TrimSpace(cur[t].arg)
       IN  /\ item' = [item EXCEPT ![t] = trimmed]
           /\ IF trimmed = << >>
              THEN /\ ret' = [ret EXCEPT ![t].res = "EmptyEntry"]
                   /\ pc' = [pc EXCEPT ![t] = "unlock"]
              ELSE IF contains(items, trimmed)
              THEN /\ pc' = [pc EXCEPT ![t] = "RemoveDelete"]
                   /\ UNCHANGED ret
              ELSE /\ ret' = [ret EXCEPT ![t].res = "NotFound"]
                   /\ pc' = [pc EXCEPT ![t] = "unlock"]
    /\ UNCHANGED <<file, store, items, mu, cur, handle, seq, crashed,
                   nfail, nops, pre, acked, failedAdds>>

\* Remove, line 71: fi.items.Delete(strings.ToLower(item)).  An iteration in
\* progress over the map no longer produces the deleted element.
RemoveDelete(t) ==
    /\ Running
    /\ pc[t] = "RemoveDelete"
    /\ items' = items \ {RemoveKey(item[t])}
    /\ seq' = [u \in Threads |->
                 [must |-> seq[u].must \ {RemoveKey(item[t])},
                  may |-> seq[u].may \ {RemoveKey(item[t])}]]
    /\ acked' = acked \ {Normalized(cur[t].arg)}
    /\ failedAdds' = failedAdds \ {Normalized(cur[t].arg)}
    /\ pc' = [pc EXCEPT ![t] = "Rewrite"]
    /\ UNCHANGED <<file, store, mu, cur, item, ret, handle, crashed,
                   nfail, nops, pre>>

\* The contents rewriteFile can produce for set: its elements in any order
\* of map iteration, joined by newlines (fileitem.go:153-157).
RewriteContents(set) == { Join(o) : o \in Orders(set) }

\* Mutant: the content is appended to the file instead of replacing it.
WriteFileAppends(old, content) == old \o content

\* os.WriteFile (fileitem.go:158): the data of the file after writing content
\* over a file that held old.
WriteFile(old, content) == content

\* rewriteFile, line 158: os.WriteFile truncates the file and writes the
\* content; it can fail before the truncation or after writing any part.
Rewrite(t) ==
    /\ Running
    /\ pc[t] = "Rewrite"
    /\ \E content \in RewriteContents(items) :
          \/ /\ file' = [exists |-> TRUE, data |-> WriteFile(file.data, content)]
             /\ ret' = [ret EXCEPT ![t].res = "ok"]
             /\ failedAdds' = {}
             /\ UNCHANGED nfail
          \/ /\ \/ UNCHANGED file
                \/ \E part \in Prefixes(content) :
                      file' = [exists |-> TRUE, data |-> part]
             /\ ret' = [ret EXCEPT ![t] = [res |-> "IOFailure", failedCall |-> "WriteFile"]]
             /\ FsError
             /\ UNCHANGED failedAdds
    /\ pc' = [pc EXCEPT ![t] = "unlock"]
    /\ UNCHANGED <<store, items, mu, cur, item, handle, seq, crashed, nops,
                   pre, acked>>

\* ----------------------------------------------------------- Contains, Items
\* Contains, line 85.
ContainsBody(t) ==
    /\ Running
    /\ pc[t] = "ContainsBody"
    /\ ret' = [ret EXCEPT ![t].res =
                 IF contains(items, cur[t].arg) THEN "true" ELSE "false"]
    /\ pc' = [pc EXCEPT ![t] = "unlock"]
    /\ UNCHANGED <<file, store, items, mu, cur, item, handle, seq, crashed,
                   nfail, nops, pre, acked, failedAdds>>

\* Items, line 100: fi.items.Values() builds the sequence; nothing is read
\* from the map until the caller ranges over it.
ItemsBody(t) ==
    /\ Running
    /\ pc[t] = "ItemsBody"
    /\ ret' = [ret EXCEPT ![t].res = "seq"]
    /\ pc' = [pc EXCEPT ![t] = "unlock"]
    /\ UNCHANGED <<file, store, items, mu, cur, item, handle, seq, crashed,
                   nfail, nops, pre, acked, failedAdds>>

\* A thread is at a write of the map fi.items.
WritingMap(u) == pc[u] \in {"AddInsert", "RemoveDelete"}

\* The caller of Items starts to range over the returned sequence, without
\* holding fi.itemsMu: the iteration over the map fi.items begins, and has
\* every element of the map to produce.  A start that coincides with a write
\* of the map by another thread is a data race: the runtime may abort the
\* process, or the step may go through.
RangeBegin(t) ==
    /\ Running
    /\ pc[t] = "range"
    /\ \/ /\ seq' = [seq EXCEPT ![t] = [must |-> items, may |-> {}]]
          /\ pc' = [pc EXCEPT ![t] = "ranging"]
          /\ UNCHANGED crashed
       \/ /\ \E u \in Threads \ {t} : WritingMap(u)
          /\ crashed' = TRUE
          /\ UNCHANGED <<pc, seq>>
    /\ UNCHANGED <<file, store, items, mu, cur, item, ret, handle, nfail,
                   nops, pre, acked, failedAdds>>

\* One step of the range loop, which reads the map fi.items without holding
\* fi.itemsMu: it produces an element not produced before (one that has been
\* in the map since the iteration began, or one inserted since), or the
\* sequence ends, which it can only when every element that has been in the
\* map since the iteration began has been produced.  A step that coincides
\* with a write of the map by another thread is a data race, as above.
RangeNext(t) ==
    /\ Running
    /\ pc[t] = "ranging"
    /\ \/ /\ \E e \in seq[t].must \cup seq[t].may :    \* the loop body runs
                seq' = [seq EXCEPT ![t] = [must |-> seq[t].must \ {e},
                                           may |-> seq[t].may \ {e}]]
          /\ UNCHANGED <<pc, crashed>>
       \/ /\ seq[t].must = {}                          \* the sequence ends
          /\ pc' = [pc EXCEPT ![t] = "idle"]
          /\ seq' = [seq EXCEPT ![t] = NoSeq]
          /\ UNCHANGED crashed
       \/ /\ \E u \in Threads \ {t} : WritingMap(u)
          /\ crashed' = TRUE
          /\ UNCHANGED <<pc, seq>>
    /\ UNCHANGED <<file, store, items, mu, cur, item, ret, handle, nfail,
                   nops, pre, acked, failedAdds>>

\* -------------------------------------------------------------------- system
Next ==
    \/ New
    \/ \E t \in Threads : Call(t)
    \/ \E t \in Threads : \E s \in Inputs : Lock(t, "Add", s)
    \/ \E t \in Threads : \E s \in Inputs : Lock(t, "Remove", s)
    \/ \E t \in Threads : \E s \in Inputs : Lock(t, "Contains", s)
    \/ \E t \in Threads : Lock(t, "Items", << >>)
    \/ \E t \in Threads : AddCheck(t)
    \/ \E t \in Threads : AddInsert(t)
    \/ \E t \in Threads : AppendOpen(t)
    \/ \E t \in Threads : AppendStat(t)
    \/ \E t \in Threads : AppendSep(t)
    \/ \E t \in Threads : AppendItem(t)
    \/ \E t \in Threads : AppendClose(t)
    \/ \E t \in Threads : RemoveCheck(t)
    \/ \E t \in Threads : RemoveDelete(t)
    \/ \E t \in Threads : Rewrite(t)
    \/ \E t \in Threads : ContainsBody(t)
    \/ \E t \in Threads : ItemsBody(t)
    \/ \E t \in Threads : RangeBegin(t)
    \/ \E t \in Threads : RangeNext(t)
    \/ \E t \in Threads : Unlock(t)

Spec == Init /\ [][Next]_vars

\* ------------------------------------------------------------ fair scheduling
\* fi.itemsMu.Lock() returns in thread t, for whichever operation it called.
Acquire(t) ==
    \/ \E s \in Inputs : Lock(t, "Add", s)
    \/ \E s \in Inputs : Lock(t, "Remove", s)
    \/ \E s \in Inputs : Lock(t, "Contains", s)
    \/ Lock(t, "Items", << >>)

\* A step of thread t between the acquisition of the lock and its return.
Body(t) ==
    \/ AddCheck(t) \/ AddInsert(t) \/ AppendOpen(t) \/ AppendStat(t)
    \/ AppendSep(t) \/ AppendItem(t) \/ AppendClose(t)
    \/ RemoveCheck(t) \/ RemoveDelete(t) \/ Rewrite(t)
    \/ ContainsBody(t) \/ ItemsBody(t) \/ Unlock(t)

\* The scheduler runs every thread that can run, file-system calls return, and
\* sync.Mutex hands the lock to every waiter in the end (its starvation mode).
\* Nothing makes a caller start an operation or go on ranging.
SpecFair ==
    Spec /\ \A t \in Threads : WF_vars(Body(t)) /\ SF_vars(Acquire(t))

\* ------------------------------------------------------- New over many files
\* Length of the longest file content New is called over.
MaxData == 4

\* Characters of those contents: a letter in both cases, a space, LF and CR.
DataAlphabet == { "a", "A", " ", LF, CR }

OpenFiles ==
    { NoFile } \cup
    { [exists |-> TRUE, data |-> d] :
        d \in UNION { [1..n -> DataAlphabet] : n \in 0..MaxData } }

InitOpen ==
    /\ file \in OpenFiles
    /\ store = "new"
    /\ items = {}
    /\ mu = 0
    /\ pc = [t \in Threads |-> "idle"]
    /\ cur = [t \in Threads |-> NoCall]
    /\ item = [t \in Threads |-> << >>]
    /\ ret = [t \in Threads |-> NoRet]
    /\ handle = [t \in Threads |-> FALSE]
    /\ seq = [t \in Threads |-> NoSeq]
    /\ crashed = FALSE
    /\ nfail = 0
    /\ nops = 0
    /\ pre = NoPre
    /\ acked = {}
    /\ failedAdds = {}

\* New(path) over every file content up to MaxData characters.
SpecOpen == InitOpen /\ [][New]_vars

\* ================================================================== claims
\* Thread t is at the return of op: the body is done, the lock still held.
AtReturn(t, op) == pc[t] = "unlock" /\ cur[t].op = op

\* No operation is in progress.
Quiescent == store = "open" /\ \A t \in Threads : ~InFlight(t)

HasNewline(s) == \E i \in 1..Len(s) : s[i] = LF
NewlineFree(set) == \A e \in set : ~HasNewline(e)

\* The argument is empty after trimming: it holds whitespace only.
Blank(s) == \A i \in 1..Len(s) : IsSpace(s[i])

\* What a store opened over the file now would hold.
FileEntries == LoadEntries(file.data)

\* The steps of the operations' bodies, which access fi.items or the file.
BodySteps ==
    {"AddCheck", "AddInsert", "AppendOpen", "AppendStat", "AppendSep",
     "AppendItem", "AppendClose", "RemoveCheck", "RemoveDelete", "Rewrite",
     "ContainsBody", "ItemsBody", "unlock"}

ToUpperChar(c) ==
    CASE c = "a" -> "A"
      [] c = "b" -> "B"
      [] c = "c" -> "C"
      [] OTHER -> c

\* The strings that differ from s in letter case only.
RECURSIVE CaseVariants(_)
CaseVariants(s) ==
    IF s = << >> THEN { << >> }
    ELSE { <<c>> \o r : c \in {s[1], ToLowerChar(s[1]), ToUpperChar(s[1])},
                        r \in CaseVariants(Tail(s)) }

Pads == { << >>, <<" ">>, <<LF>>, <<CR, LF>> }

\* Strings that differ from s only in letter case or in leading and trailing
\* whitespace.
Variants(s) ==
    { l \o v \o r : l \in Pads, r \in Pads, v \in CaseVariants(TrimSpace(s)) }

\* ---- C1
\* C1 (as stated): when no file-system call has failed and no operation is in
\* progress, the trimmed, lowercased, non-blank lines of the file are the
\* in-memory set, and every entry whose Add succeeded is found after a reopen.
C1_FileMatchesMemory ==
    (Quiescent /\ ~IoFailed) =>
        LET reopened == FileEntries
        IN  /\ reopened = items
            /\ \A k \in acked : contains(reopened, k)

\* C1 (amended): the same, provided no entry of the in-memory set contains a
\* newline character.
C1_FileMatchesMemoryNoNewline ==
    (Quiescent /\ ~IoFailed /\ NewlineFree(items)) =>
        LET reopened == FileEntries
        IN  /\ reopened = items
            /\ \A k \in acked : contains(reopened, k)

\* Add(" A\n") has succeeded on an empty store: the file keeps the case, the
\* set holds the lowercase form.
C1_Witness ==
    /\ Quiescent /\ ~IoFailed /\ NewlineFree(items)
    /\ <<"a">> \in acked
    /\ file.data = <<"A">>

\* ---- C2
\* An Add of an entry that was absent when it was called, and that no other
\* thread has called Add with since, returns nil when no file-system call fails.
C2_Succeeds(t) ==
    ( /\ AtReturn(t, "Add")
      /\ ~Blank(cur[t].arg)
      /\ Normalized(cur[t].arg) \notin cur[t].callItems
      /\ Normalized(cur[t].arg) \notin cur[t].seenAdds
      /\ ~IoFailed )
    => ret[t].res = "ok"

\* C2 (as stated): concurrent Adds of distinct new entries all succeed, and
\* once they have returned every entry is in the set and is a line of the file.
C2_NoLostUpdate ==
    /\ \A t \in Threads : C2_Succeeds(t)
    /\ (Quiescent /\ ~IoFailed) =>
          LET lines == FileEntries
          IN  \A k \in acked : k \in items /\ k \in lines

\* C2 (amended): ... every entry is in the set, and every entry without a
\* newline character in it is a line of the file.
C2_NoLostUpdateNoNewline ==
    /\ \A t \in Threads : C2_Succeeds(t)
    /\ (Quiescent /\ ~IoFailed) =>
          LET lines == FileEntries
          IN  \A k \in acked : k \in items /\ (~HasNewline(k) => k \in lines)

\* The second of two overlapping Adds of distinct new entries returns nil; both
\* entries are in the set and in the file.
C2_Witness ==
    \E t \in Threads :
        /\ AtReturn(t, "Add") /\ ret[t].res = "ok" /\ ~IoFailed
        /\ cur[t].overlapped
        /\ Normalized(cur[t].arg) \notin cur[t].callItems
        /\ acked # {} /\ Normalized(cur[t].arg) \notin acked
        /\ NewlineFree(items)
        /\ (acked \cup {Normalized(cur[t].arg)}) \subseteq (items \cap FileEntries)

\* ---- C3
\* C3 (as stated): every access to fi.items is made under the lock, and no
\* thread writes the set while another reads it: ranging over the sequence
\* Items returned is safe while other threads call Add or Remove.
C3_AllAccessSerialized ==
    /\ \A t \in Threads : (pc[t] \in BodySteps) => mu = t
    /\ \A t \in Threads : \A u \in Threads \ {t} :
          pc[t] \in {"range", "ranging"} => ~WritingMap(u)

\* ---- C4
\* C4 (as stated, for entries without newline characters): once a failure has
\* left file and set different, the first later Add or Remove that returns nil
\* leaves them equal.
C4_AnySuccessRestores ==
    \A t \in Threads :
        ( /\ pc[t] = "unlock" /\ cur[t].op \in {"Add", "Remove"}
          /\ ret[t].res = "ok" /\ ret[t].failedCall = "none"
          /\ IoFailed /\ LoadEntries(pre.file.data) # pre.items
          /\ NewlineFree(items \cup pre.items) )
        => FileEntries = items

\* C4 (amended): once a failure has left file and set different, the first
\* later Remove that returns nil leaves them equal, provided no entry of the
\* set contains a newline character.
C4_RemoveRestores ==
    \A t \in Threads :
        ( /\ AtReturn(t, "Remove")
          /\ ret[t].res = "ok"
          /\ IoFailed /\ LoadEntries(pre.file.data) # pre.items
          /\ NewlineFree(items) )
        => FileEntries = items

\* A Remove returns nil after an earlier failure had left file and set different.
C4_Witness ==
    \E t \in Threads :
        /\ AtReturn(t, "Remove") /\ ret[t].res = "ok"
        /\ IoFailed /\ LoadEntries(pre.file.data) # pre.items
        /\ NewlineFree(items) /\ items # {}
        /\ FileEntries = items

\* ---- C5
\* C5: when the append of Add fails, Add returns the error and the entry stays
\* in the set; when the rewrite of Remove fails, Remove returns the error and
\* the entry stays deleted.
C5_NoRollback ==
    \A t \in Threads :
        /\ ( AtReturn(t, "Add")
             /\ ret[t].failedCall \in {"OpenFile", "WriteSep", "WriteItem"} )
           => ret[t].res = "IOFailure" /\ contains(items, cur[t].arg)
        /\ ( AtReturn(t, "Remove") /\ ret[t].failedCall = "WriteFile" )
           => ret[t].res = "IOFailure" /\ ~contains(items, cur[t].arg)

\* An Add returns the error of os.OpenFile; the entry is in the set and not in
\* the file.
C5_Witness ==
    \E t \in Threads :
        /\ AtReturn(t, "Add") /\ ret[t].failedCall = "OpenFile"
        /\ ret[t].res = "IOFailure"
        /\ Normalized(cur[t].arg) \in items \ pre.items
        /\ file = pre.file

\* ---- C6
\* C6: after Add(s) returns nil, Contains is true for s and for every string
\* that differs from s in case or surrounding whitespace only, until a Remove
\* of the entry deletes it: the lookup succeeds at the return of Add, the
\* entry stays in the set, and every later Contains of such a string is true.
C6_ContainsAfterAdd ==
    /\ \A t \in Threads :
          (AtReturn(t, "Add") /\ ret[t].res = "ok") =>
              \A v \in Variants(cur[t].arg) \cup {cur[t].arg} : contains(items, v)
    /\ acked \subseteq items
    /\ \A t \in Threads :
          (AtReturn(t, "Contains") /\ \E k \in acked : cur[t].arg \in Variants(k))
              => ret[t].res = "true"

\* Contains(" A\n") returns true after Add("a") has succeeded.
C6_Witness ==
    \E t \in Threads :
        /\ AtReturn(t, "Contains") /\ cur[t].arg = <<" ", "A", LF>>
        /\ <<"a">> \in acked
        /\ ret[t].res = "true"

\* ---- C7
\* C7: Add of an entry whose normalized form is in the set fails with
\* AlreadyExists and changes neither the set nor the file.
C7_DuplicateRejected ==
    \A t \in Threads :
        ( AtReturn(t, "Add") /\ ~Blank(cur[t].arg)
          /\ Normalized(cur[t].arg) \in pre.items )
        => /\ ret[t].res = "AlreadyExists"
           /\ items = pre.items
           /\ file = pre.file

\* Add(" A\n") is rejected on a store that holds "a".
C7_Witness ==
    \E t \in Threads :
        /\ AtReturn(t, "Add") /\ cur[t].arg = <<" ", "A", LF>>
        /\ <<"a">> \in pre.items
        /\ ret[t].res = "AlreadyExists"

\* ---- C8
\* C8: Remove of an entry whose normalized form is not in the set fails with
\* NotFound and changes neither the set nor the file.
C8_UnknownRejected ==
    \A t \in Threads :
        ( AtReturn(t, "Remove") /\ ~Blank(cur[t].arg)
          /\ Normalized(cur[t].arg) \notin pre.items )
        => /\ ret[t].res = "NotFound"
           /\ items = pre.items
           /\ file = pre.file

\* Remove of an unknown entry is rejected on a store that holds entries.
C8_Witness ==
    \E t \in Threads :
        /\ AtReturn(t, "Remove") /\ ~Blank(cur[t].arg)
        /\ Normalized(cur[t].arg) \notin pre.items
        /\ pre.items # {}
        /\ ret[t].res = "NotFound"

\* ---- C9
\* C9: for an argument that is empty after trimming, Add and Remove fail with
\* EmptyEntry and change neither the set nor the file; Contains returns false.
C9_BlankRejected ==
    \A t \in Threads :
        (pc[t] = "unlock" /\ Blank(cur[t].arg)) =>
            /\ cur[t].op \in {"Add", "Remove"} =>
                  /\ ret[t].res = "EmptyEntry"
                  /\ items = pre.items
                  /\ file = pre.file
            /\ cur[t].op = "Contains" => ret[t].res = "false"

\* Add(" ") is rejected on a store that holds entries.
C9_Witness ==
    \E t \in Threads :
        /\ AtReturn(t, "Add") /\ cur[t].arg = <<" ">>
        /\ ret[t].res = "EmptyEntry"
        /\ items # {}

\* ---- C10
\* The file holds exactly the entries of the set, one per line, with no
\* trailing newline.
OnePerLine ==
    IF items = {} THEN file.data = << >>
    ELSE LET lines == Split(file.data)
         IN  /\ Len(lines) = Cardinality(items)
             /\ { lines[i] : i \in 1..Len(lines) } = items

\* C10 (as stated): after a successful Remove(s) the file holds exactly the
\* entries left in the set, one per line, and a reopen yields the set as it
\* was before minus the normalized s.
C10_RewriteExact ==
    \A t \in Threads :
        (AtReturn(t, "Remove") /\ ret[t].res = "ok") =>
            /\ items = pre.items \ {Normalized(cur[t].arg)}
            /\ OnePerLine
            /\ FileEntries = pre.items \ {Normalized(cur[t].arg)}

\* C10 (amended): after a successful Remove(s) the set is the set before minus
\* the normalized s and the file is the entries left, in some order, joined by
\* single newlines; when none of them contains a newline character they are
\* one per line and a reopen yields that set.
C10_RewriteExactNoNewline ==
    \A t \in Threads :
        (AtReturn(t, "Remove") /\ ret[t].res = "ok") =>
            /\ items = pre.items \ {Normalized(cur[t].arg)}
            /\ \E o \in Orders(items) : file.data = Join(o)
            /\ NewlineFree(items) =>
                  /\ OnePerLine
                  /\ FileEntries = pre.items \ {Normalized(cur[t].arg)}

\* Remove(" A\n") succeeds on the store loaded with a, b and c.
C10_Witness ==
    \E t \in Threads :
        /\ AtReturn(t, "Remove") /\ ret[t].res = "ok"
        /\ cur[t].arg = <<" ", "A", LF>>
        /\ pre.items = {<<"a">>, <<"b">>, <<"c">>}
        /\ items = {<<"b">>, <<"c">>}
        /\ FileEntries = items

\* ---- C11
\* The lines of content s: its longest runs of characters other than LF that
\* start at the beginning or after an LF and end at the end or before an LF.
FileLines(s) ==
    { SubSeq(s, p[1], p[2]) :
        p \in { q \in (1..Len(s)) \X (1..Len(s)) :
                  /\ q[1] <= q[2]
                  /\ q[1] = 1 \/ s[q[1] - 1] = LF
                  /\ q[2] = Len(s) \/ s[q[2] + 1] = LF
                  /\ \A k \in q[1]..q[2] : s[k] # LF } }

\* New has returned a store and no operation has been called on it.
Opened == store = "open" /\ nops = 0

\* C11: New over an existing readable file leaves in the set exactly the
\* non-blank lines of the file (CRLF read as LF), trimmed and lowercased, and
\* leaves the file as it was.
C11_OpenLoadsLines ==
    (Opened /\ pre.file.exists) =>
        /\ items = { Normalized(l) :
                       l \in { x \in FileLines(ReplaceCRLF(pre.file.data)) :
                                 ~Blank(x) } }
        /\ file = pre.file

\* New over "A\r\na": a CRLF line end and the same entry in both cases give
\* the one entry "a".
C11_Witness ==
    /\ Opened
    /\ pre.file = [exists |-> TRUE, data |-> <<"A", CR, LF, "a">>]
    /\ items = { <<"a">> }
    /\ file = pre.file

\* ---- C12
\* C12 (as stated): New over a missing file creates an empty file and returns
\* a store with an empty set; when New fails, it has created or changed no
\* file.
C12_OpenCreatesOrFailsClean ==
    /\ (Opened /\ ~pre.file.exists) =>
          items = {} /\ file = [exists |-> TRUE, data |-> << >>]
    /\ store = "failed" => file = pre.file

\* C12 (amended): New over a missing file creates an empty file and returns a
\* store with an empty set; when New fails, an existing file is as it was, and
\* a missing file is still missing or has been created empty.
C12_OpenCreatesOrFailsEmpty ==
    /\ (Opened /\ ~pre.file.exists) =>
          items = {} /\ file = [exists |-> TRUE, data |-> << >>]
    /\ store = "failed" =>
          \/ file = pre.file
          \/ ~pre.file.exists /\ file = [exists |-> TRUE, data |-> << >>]

\* New has created the missing file and returned an empty store.
C12_Witness ==
    /\ Opened /\ ~pre.file.exists
    /\ items = {} /\ file.exists /\ file.data = << >>

\* ---- C13
\* C13 (for entries without newline characters): when Add returns nil, the file
\* is its content before the call, then a newline if that content was not
\* empty, then the trimmed argument in its own letter case.
C13_AppendOnOwnLine ==
    \A t \in Threads :
        (AtReturn(t, "Add") /\ ret[t].res = "ok" /\ ~HasNewline(cur[t].arg)) =>
            file.data = pre.file.data
                          \o (IF pre.file.data # << >> THEN <<LF>> ELSE << >>)
                          \o TrimSpace(cur[t].arg)

\* ---- C14
\* C14: every element of the set is non-empty, starts and ends with a
\* character that is not whitespace, and holds no uppercase letter.
C14_EntriesNormalized ==
    \A e \in items :
        /\ e # << >>
        /\ ~IsSpace(e[1]) /\ ~IsSpace(e[Len(e)])
        /\ \A i \in 1..Len(e) : e[i] \notin {"A", "B", "C"}

\* Add(" A\n") has failed in its append on a store that held other entries:
\* the set has gained "a".
C14_Witness ==
    \E t \in Threads :
        /\ AtReturn(t, "Add") /\ cur[t].arg = <<" ", "A", LF>>
        /\ ret[t].res = "IOFailure"
        /\ items = pre.items \cup {<<"a">>} /\ <<"a">> \notin pre.items
        /\ pre.items # {}

\* ---- C15
\* C15: a thread holds an open file only between os.OpenFile and f.Close of
\* its own appendToFile: none at the return of any operation, none while it is
\* idle, waiting for the lock or ranging.
C15_HandlesScoped ==
    \A t \in Threads :
        handle[t] =>
            /\ pc[t] \in {"AppendStat", "AppendSep", "AppendItem", "AppendClose"}
            /\ cur[t].op = "Add"

\* Add returns the error of the separator write, and its file is closed.
C15_Witness ==
    \E t \in Threads :
        /\ AtReturn(t, "Add") /\ ret[t].failedCall = "WriteSep"
        /\ ret[t].res = "IOFailure"
        /\ ~handle[t]

\* ---- C16
\* The number of lines of content data whose normalized form is k.
LineCount(data, k) ==
    LET lines == Split(ReplaceCRLF(data))
    IN  Cardinality({ i \in 1..Len(lines) :
                        ~Blank(lines[i]) /\ Normalized(lines[i]) = k })

\* Thread t returns from an Add whose entry was absent when it called, while
\* another thread has called Add with the same normalized form, and no
\* file-system call has failed.
C16_Contended(t) ==
    /\ AtReturn(t, "Add") /\ ~Blank(cur[t].arg) /\ ~IoFailed
    /\ Normalized(cur[t].arg) \notin cur[t].callItems
    /\ Normalized(cur[t].arg) \in cur[t].seenAdds

\* C16 (as stated): of concurrent Adds of one new entry, one returns nil, having
\* inserted the entry while no other success for it stands; every other
\* returns AlreadyExists, after that success, and changes nothing; the file
\* then holds exactly one line for the entry.
C16_OneWinner ==
    \A t \in Threads :
        C16_Contended(t) =>
            LET k == Normalized(cur[t].arg)
            IN  /\ ret[t].res \in {"ok", "AlreadyExists"}
                /\ ret[t].res = "ok" =>
                      /\ k \notin acked /\ k \notin pre.items
                      /\ items = pre.items \cup {k}
                /\ ret[t].res = "AlreadyExists" =>
                      /\ k \in acked
                      /\ items = pre.items /\ file = pre.file
                /\ LineCount(file.data, k) = 1

\* C16 (amended): the same, where the file holds exactly one line for the
\* entry provided no entry of the set contains a newline character.
C16_OneWinnerNoNewline ==
    \A t \in Threads :
        C16_Contended(t) =>
            LET k == Normalized(cur[t].arg)
            IN  /\ ret[t].res \in {"ok", "AlreadyExists"}
                /\ ret[t].res = "ok" =>
                      /\ k \notin acked /\ k \notin pre.items
                      /\ items = pre.items \cup {k}
                /\ ret[t].res = "AlreadyExists" =>
                      /\ k \in acked
                      /\ items = pre.items /\ file = pre.file
                /\ NewlineFree(items) => LineCount(file.data, k) = 1

\* Of two overlapping Adds of "a" and " A\n", the second returns
\* AlreadyExists; the file holds one line for the entry.
C16_Witness ==
    \E t \in Threads :
        /\ C16_Contended(t) /\ cur[t].overlapped
        /\ ret[t].res = "AlreadyExists"
        /\ Normalized(cur[t].arg) = <<"a">> /\ <<"a">> \in acked
        /\ LineCount(file.data, <<"a">>) = 1

\* ---- C17
\* An Add of an entry whose earlier Add failed in its append returns
\* AlreadyExists and changes neither the set nor the file.
C17_RetryRejected ==
    \A t \in Threads :
        (AtReturn(t, "Add") /\ Normalized(cur[t].arg) \in failedAdds) =>
            /\ ret[t].res = "AlreadyExists"
            /\ items = pre.items /\ file = pre.file

\* C17 (as stated): after Add(s) failed in its append, every retry is rejected
\* without a write, and the entry is in the set and in no line of the file,
\* until a Remove deletes it or a successful Remove rewrites the file.
C17_FailedAddStaysOffFile ==
    /\ C17_RetryRejected
    /\ \A k \in failedAdds : k \in items /\ k \notin FileEntries

\* C17 (amended): ... the entry is in the set; it is in no line of the file as
\* long as no other file-system call has failed and the set has held no entry
\* with a newline character in it (now, or when the operation in progress
\* started).
C17_FailedAddStaysInMemory ==
    /\ C17_RetryRejected
    /\ \A k \in failedAdds :
          /\ k \in items
          /\ (nfail = 1 /\ NewlineFree(items \cup pre.items)) => k \notin FileEntries

\* Add(" A\n") is rejected after Add("a") failed in its append; the entry is in
\* the set and not in the file.
C17_Witness ==
    \E t \in Threads :
        /\ AtReturn(t, "Add") /\ cur[t].arg = <<" ", "A", LF>>
        /\ <<"a">> \in failedAdds
        /\ ret[t].res = "AlreadyExists"
        /\ <<"a">> \in items /\ <<"a">> \notin FileEntries

\* ---- C18
\* C18: the lock is free whenever no operation is in progress, and every
\* operation that has been called returns.
C18_EveryCallReturns ==
    /\ []((\A t \in Threads : ~InFlight(t)) => mu = 0)
    /\ \A t \in Threads : (pc[t] = "lock") ~> (pc[t] \in {"idle", "range"})

====
